---- MODULE Spec2Model ----
(***************************************************************************)
(* Model of the WhatSon command-line launcher (src/cli/src/main.rs).       *)
(*                                                                         *)
(* main() locates the project root (discover_root), tries to run a         *)
(* prebuilt application binary (launch_prebuilt) and otherwise configures  *)
(* and builds the cmake target whatson_run_app (run_cmake_target).         *)
(*                                                                         *)
(* The environment (WHATSON_ROOT, the working directory, the directory     *)
(* tree, the files under the root, the outcome of every child process) is  *)
(* an input: the directory tree and the variables are drawn in Init, the   *)
(* outcome of a child process is drawn when the launcher waits for it.     *)
(***************************************************************************)
EXTENDS Integers, Sequences, FiniteSets, TLC

(***************************************************************************)
(* Bounds of the model.                                                    *)
(***************************************************************************)
\* Depth of the directory tree below "/".
MaxDepth == 1
\* Number of components of the text given in WHATSON_ROOT.
MaxOverrideLen == 2
\* Largest exit code a child process reports.
MaxExit == 2

(***************************************************************************)
(* Paths.  A path is the value of a PathBuf: whether it starts at the      *)
(* root, and its components.  Two PathBufs are equal (and hash alike) iff  *)
(* these agree; no component is resolved against the file system.          *)
(***************************************************************************)
Names == {"a", "b"}
Up == ".."
Tokens == Names \cup {Up}

SeqsUpTo(S, n) == UNION {[1..k -> S] : k \in 0..n}

\* Directories that exist, named by their components below "/".
Dirs == SeqsUpTo(Names, MaxDepth)

\* Result of resolving a path that names no existing directory.
NoDir == <<"?">>

AbsPath(comps) == [abs |-> TRUE, comps |-> comps]
RelPath(comps) == [abs |-> FALSE, comps |-> comps]

\* Values of env::var("WHATSON_ROOT"): Err (unset, or not unicode) or Ok(text).
NoOverride == [set |-> FALSE, path |-> RelPath(<<>>)]
Overrides ==
    {NoOverride} \cup
    {[set |-> TRUE, path |-> [abs |-> ab, comps |-> c]] :
        ab \in BOOLEAN, c \in SeqsUpTo(Tokens, MaxOverrideLen)}

\* Values of env::current_dir(): Err, or Ok(an absolute directory).
NoCwd == [ok |-> FALSE, dir |-> <<>>]
Cwds == {NoCwd} \cup {[ok |-> TRUE, dir |-> d] : d \in Dirs}

\* env!("CARGO_MANIFEST_DIR") is fixed when the launcher is compiled: the
\* crate lives in <ManifestRoot>/src/cli.
ManifestRoot == <<"a">>
ManifestDir == ManifestRoot \o <<"src", "cli">>

VARIABLES
    override,      \* env::var("WHATSON_ROOT")
    cwd,           \* env::current_dir()
    manifestOk,    \* whether canonicalize() of the manifest fallback succeeds
    validRoots,    \* directories holding CMakeLists.txt and src/app/main.cpp
    exeIsFile,     \* exeIsFile[i]: root.join(APP_EXECUTABLES[i]).is_file()
    buildExists,   \* root.join("build").exists()
    pc,            \* position of main
    candidates,    \* discover_root: the candidate list
    idx,           \* discover_root: position of the for loop
    seen,          \* discover_root: the HashSet
    evals,         \* history: the paths is_project_root was called with
    root,          \* main: the Option<PathBuf> discover_root returned
    invoked,       \* history: the Command::status() calls, in order
    running,       \* child processes spawned and not yet waited for
    lastStatus,    \* history: outcome of each Command::status() call
    stderr,        \* diagnostics written with eprintln!
    exitCode       \* argument of process::exit

envVars == <<override, cwd, manifestOk, validRoots, exeIsFile, buildExists>>
rootVars == <<candidates, idx, seen, evals, root>>
childVars == <<invoked, running, lastStatus>>
vars == <<envVars, pc, rootVars, childVars, stderr, exitCode>>

(***************************************************************************)
(* The file system.                                                        *)
(***************************************************************************)
\* Walk the components of a path from directory d, as the kernel resolves
\* them: ".." of "/" is "/", a name that does not exist ends the walk.
RECURSIVE Walk(_, _)
Walk(d, toks) ==
    IF d = NoDir \/ toks = <<>> THEN d
    ELSE LET t == Head(toks)
             next == IF t = Up
                        THEN (IF d = <<>> THEN d ELSE SubSeq(d, 1, Len(d) - 1))
                     ELSE IF t \in Names /\ Len(d) < MaxDepth
                        THEN Append(d, t)
                     ELSE NoDir
         IN Walk(next, Tail(toks))

\* The directory a path names for a process whose working directory is c.
Resolve(path, c) ==
    IF path.abs THEN Walk(<<>>, path.comps)
    ELSE IF c.ok THEN Walk(c.dir, path.comps)
    ELSE NoDir

(***************************************************************************)
(* discover_root                                                           *)
(***************************************************************************)
\* Path::ancestors of an absolute directory: itself, its parent, ..., "/".
Ancestors(d) == [i \in 1..(Len(d) + 1) |-> AbsPath(SubSeq(d, 1, Len(d) + 1 - i))]

\* What canonicalize() returns for an existing path: "x/.." cancelled.
RECURSIVE Canonical(_, _)
Canonical(done, toks) ==
    IF toks = <<>> THEN done
    ELSE IF Head(toks) = Up
        THEN Canonical(IF done = <<>> THEN done ELSE SubSeq(done, 1, Len(done) - 1),
                       Tail(toks))
    ELSE Canonical(Append(done, Head(toks)), Tail(toks))

\* The manifest-derived fallback: CARGO_MANIFEST_DIR/../.., canonicalized when
\* that succeeds and kept as written otherwise.
ManifestFallback(canonOk) ==
    LET manifest_parent == ManifestDir \o <<Up, Up>>
    IN  IF canonOk THEN AbsPath(Canonical(<<>>, manifest_parent))
        ELSE AbsPath(manifest_parent)

\* The candidate list with the ancestors pushed before the override.
CandidatesAncestorsFirst(ov, c, canonOk) ==
    (IF c.ok THEN Ancestors(c.dir) ELSE <<>>)
    \o (IF ov.set THEN <<ov.path>> ELSE <<>>)
    \o <<ManifestFallback(canonOk)>>

\* The candidate list, in the order the pushes build it.
Candidates(ov, c, canonOk) ==
    (IF ov.set THEN <<ov.path>> ELSE <<>>)
    \o (IF c.ok THEN Ancestors(c.dir) ELSE <<>>)
    \o <<ManifestFallback(canonOk)>>

\* A set that reports every path as new.
SeenInsertAlways(s, path) == TRUE

\* HashSet::insert: TRUE iff the path was not in the set.
SeenInsert(s, path) == path \notin s

\* A predicate that accepts every directory.
AcceptAnyPath(path) == TRUE

\* Both marker files are regular files under the path.
is_project_root(path) == Resolve(path, cwd) \in validRoots

NoRoot == [found |-> FALSE, path |-> RelPath(<<>>)]
SomeRoot(path) == [found |-> TRUE, path |-> path]

\* Lines 38-55: the candidate list is built and the set is created.
CollectCandidates ==
    /\ pc = "discover"
    /\ candidates' = Candidates(override, cwd, manifestOk)
    /\ idx' = 1
    /\ seen' = {}
    /\ pc' = "loop"
    /\ UNCHANGED <<envVars, evals, root, childVars, stderr, exitCode>>

\* Lines 57-59: a path seen before is skipped.
LoopSkip ==
    /\ pc = "loop"
    /\ idx <= Len(candidates)
    /\ ~SeenInsert(seen, candidates[idx])
    /\ idx' = idx + 1
    /\ UNCHANGED <<envVars, pc, candidates, seen, evals, root, childVars,
                   stderr, exitCode>>

\* Lines 57-62: a new path is tested; the first valid one is returned.
LoopTest ==
    /\ pc = "loop"
    /\ idx <= Len(candidates)
    /\ SeenInsert(seen, candidates[idx])
    /\ seen' = seen \cup {candidates[idx]}
    /\ evals' = Append(evals, candidates[idx])
    /\ IF is_project_root(candidates[idx])
          THEN /\ root' = SomeRoot(candidates[idx])
               /\ pc' = "launch"
               /\ idx' = idx
          ELSE /\ idx' = idx + 1
               /\ UNCHANGED <<root, pc>>
    /\ UNCHANGED <<envVars, candidates, childVars, stderr, exitCode>>

\* process::exit(1) of a launcher that found no root.
RootNotFoundExit == 1

\* Line 65 and lines 13-18: None is returned; main reports it and exits.
LoopNone ==
    /\ pc = "loop"
    /\ idx > Len(candidates)
    /\ root' = NoRoot
    /\ stderr' = Append(stderr, "root_not_found")
    /\ exitCode' = RootNotFoundExit
    /\ pc' = "exited"
    /\ UNCHANGED <<envVars, candidates, idx, seen, evals, childVars>>

(***************************************************************************)
(* Child processes                                                         *)
(***************************************************************************)
\* Length of APP_EXECUTABLES.
NExe == 3

\* An ExitStatus: an exit code, or none (the child was killed by a signal).
Exited(c) == [hasCode |-> TRUE, code |-> c]
Signalled == [hasCode |-> FALSE, code |-> 0]
ExitStatuses == {Exited(c) : c \in 0..MaxExit} \cup {Signalled}

\* Outcomes of Command::status(): Err(io error) or Ok(ExitStatus).
NotCalled == [tag |-> "none", status |-> Signalled]
IoErr == [tag |-> "err", status |-> Signalled]
OkStatus(st) == [tag |-> "ok", status |-> st]
WaitResults == {IoErr} \cup {OkStatus(st) : st \in ExitStatuses}

Kinds == {"prebuilt", "configure", "build"}
Child(kind, exe) == [kind |-> kind, exe |-> exe]

\* ExitStatus::success
Success(st) == st.hasCode /\ st.code = 0

\* An exit code that reads a missing code as 0.
StatusCodeOrZero(st) == IF st.hasCode THEN st.code ELSE 0

\* ExitStatus::code().unwrap_or(1)
StatusCode(st) == IF st.hasCode THEN st.code ELSE 1

\* A child that is never taken off the set of running children.
ReapNothing(children, child) == children

\* Command::status() returns only when the child has been waited for; a wait
\* that fails (ECHILD) leaves no child of this process behind either.
Reap(children, child) == children \ {child}

(***************************************************************************)
(* launch_prebuilt and the match on its result in main                     *)
(***************************************************************************)
\* The last listed executable that is a regular file, 0 when there is none.
LastExecutable(isFile) ==
    IF \E i \in 1..NExe : isFile[i]
        THEN CHOOSE i \in 1..NExe : isFile[i] /\ \A j \in (i + 1)..NExe : ~isFile[j]
    ELSE 0

\* Lines 73-75: the first listed executable that is a regular file, 0 when
\* the loop ends without one.
FirstExecutable(isFile) ==
    IF \E i \in 1..NExe : isFile[i]
        THEN CHOOSE i \in 1..NExe : isFile[i] /\ \A j \in 1..(i - 1) : ~isFile[j]
    ELSE 0

\* Results of launch_prebuilt.
LaunchOk(b) == [tag |-> "ok", val |-> b]
LaunchErr == [tag |-> "err", val |-> FALSE]

\* A main that also exits when the prebuilt attempt returns an error.
LaunchExitsOnErr(res) == res.tag = "err" \/ res.val

\* Line 21: main exits with 0 on Ok(true) and goes on otherwise.
LaunchExits(res) == res.tag = "ok" /\ res.val

\* Lines 20-26: what main does with the result of launch_prebuilt.
MainAfterLaunch(res) ==
    /\ stderr' = IF res.tag = "err" THEN Append(stderr, "launch_failed") ELSE stderr
    /\ IF LaunchExits(res)
          THEN pc' = "exited" /\ exitCode' = 0
          ELSE pc' = "cmake" /\ UNCHANGED exitCode

\* Lines 73-76: the executable is chosen and spawned, or none is found.
LaunchPrebuilt ==
    /\ pc = "launch"
    /\ LET i == FirstExecutable(exeIsFile)
       IN  IF i = 0
              THEN /\ MainAfterLaunch(LaunchOk(FALSE))
                   /\ UNCHANGED childVars
              ELSE /\ invoked' = Append(invoked, Child("prebuilt", i))
                   /\ \/ /\ running' = running \cup {Child("prebuilt", i)}
                         /\ pc' = "wait_prebuilt"
                         /\ UNCHANGED <<lastStatus, stderr, exitCode>>
                      \/ /\ lastStatus' = [lastStatus EXCEPT !["prebuilt"] = IoErr]
                         /\ MainAfterLaunch(LaunchErr)
                         /\ UNCHANGED running
    /\ UNCHANGED <<envVars, rootVars>>

\* Lines 76-77: the wait ends; `?` returns an error, else Ok(success()).
WaitPrebuilt ==
    /\ pc = "wait_prebuilt"
    /\ \E r \in WaitResults :
        /\ lastStatus' = [lastStatus EXCEPT !["prebuilt"] = r]
        /\ running' = Reap(running, Child("prebuilt", FirstExecutable(exeIsFile)))
        /\ MainAfterLaunch(IF r.tag = "err" THEN LaunchErr
                           ELSE LaunchOk(Success(r.status)))
    /\ UNCHANGED <<envVars, rootVars, invoked>>

(***************************************************************************)
(* run_cmake_target and the match on its result in main                    *)
(***************************************************************************)
\* Exit code of a launcher whose cmake invocation returned an io error.
CmakeErrExit == 1

\* Lines 28-34: what main does with the result of run_cmake_target.
MainAfterCmake(r, code) ==
    /\ pc' = "exited"
    /\ IF r.tag = "err"
          THEN /\ stderr' = Append(stderr, "cmake_failed")
               /\ exitCode' = CmakeErrExit
          ELSE /\ exitCode' = code
               /\ UNCHANGED stderr

\* A launcher that configures on every run.
NeedsConfigureAlways(exists) == TRUE

\* Line 85: configure runs only when the build directory does not exist.
NeedsConfigure(exists) == ~exists

\* A launcher that builds whatever configure reported.
ConfigureFailedNever(st) == FALSE

\* Line 92
ConfigureFailed(st) == ~Success(st)

\* Lines 85-91: cmake -S root -B build is spawned.
SpawnConfigure ==
    /\ pc = "cmake"
    /\ NeedsConfigure(buildExists)
    /\ invoked' = Append(invoked, Child("configure", 0))
    /\ \/ /\ running' = running \cup {Child("configure", 0)}
          /\ pc' = "wait_configure"
          /\ UNCHANGED <<lastStatus, stderr, exitCode>>
       \/ /\ lastStatus' = [lastStatus EXCEPT !["configure"] = IoErr]
          /\ MainAfterCmake(IoErr, 0)
          /\ UNCHANGED running
    /\ UNCHANGED <<envVars, rootVars>>

\* Lines 91-94: the wait ends; a failed configure is returned at once.
WaitConfigure ==
    /\ pc = "wait_configure"
    /\ \E r \in WaitResults :
        /\ lastStatus' = [lastStatus EXCEPT !["configure"] = r]
        /\ running' = Reap(running, Child("configure", 0))
        /\ IF r.tag = "err" THEN MainAfterCmake(r, 0)
           ELSE IF ConfigureFailed(r.status)
                   THEN MainAfterCmake(r, StatusCode(r.status))
           ELSE pc' = "build" /\ UNCHANGED <<stderr, exitCode>>
    /\ UNCHANGED <<envVars, rootVars, invoked>>

\* Lines 97-102: cmake --build build --target whatson_run_app is spawned.
SpawnBuild ==
    /\ \/ pc = "cmake" /\ ~NeedsConfigure(buildExists)
       \/ pc = "build"
    /\ invoked' = Append(invoked, Child("build", 0))
    /\ \/ /\ running' = running \cup {Child("build", 0)}
          /\ pc' = "wait_build"
          /\ UNCHANGED <<lastStatus, stderr, exitCode>>
       \/ /\ lastStatus' = [lastStatus EXCEPT !["build"] = IoErr]
          /\ MainAfterCmake(IoErr, 0)
          /\ UNCHANGED running
    /\ UNCHANGED <<envVars, rootVars>>

\* Lines 102-104: the wait ends and the code of the build is returned.
WaitBuild ==
    /\ pc = "wait_build"
    /\ \E r \in WaitResults :
        /\ lastStatus' = [lastStatus EXCEPT !["build"] = r]
        /\ running' = Reap(running, Child("build", 0))
        /\ MainAfterCmake(r, StatusCode(r.status))
    /\ UNCHANGED <<envVars, rootVars, invoked>>

(***************************************************************************)
(* The launcher                                                            *)
(***************************************************************************)
NoExecutable == [i \in 1..NExe |-> FALSE]

\* The state when main is entered.  Every environment is explored for a root
\* that has a build directory and no prebuilt executable; the files under the
\* root are varied for the runs that do not set WHATSON_ROOT.
Init ==
    /\ override \in Overrides
    /\ cwd \in Cwds
    /\ manifestOk \in BOOLEAN
    /\ validRoots \in SUBSET Dirs
    /\ exeIsFile \in IF override.set THEN {NoExecutable} ELSE [1..NExe -> BOOLEAN]
    /\ buildExists \in IF override.set THEN {TRUE} ELSE BOOLEAN
    /\ pc = "discover"
    /\ candidates = <<>>
    /\ idx = 1
    /\ seen = {}
    /\ evals = <<>>
    /\ root = NoRoot
    /\ invoked = <<>>
    /\ running = {}
    /\ lastStatus = [k \in Kinds |-> NotCalled]
    /\ stderr = <<>>
    /\ exitCode = 0

Next ==
    \/ CollectCandidates
    \/ LoopSkip
    \/ LoopTest
    \/ LoopNone
    \/ LaunchPrebuilt
    \/ WaitPrebuilt
    \/ SpawnConfigure
    \/ WaitConfigure
    \/ SpawnBuild
    \/ WaitBuild

Spec == Init /\ [][Next]_vars

(***************************************************************************)
(* Vocabulary of the properties                                            *)
(***************************************************************************)
Done == pc = "exited"
Discovered == pc \notin {"discover", "loop"}

InvokedCount(kind) == Cardinality({i \in DOMAIN invoked : invoked[i].kind = kind})
CmakeInvoked == InvokedCount("configure") + InvokedCount("build") > 0

\* A child ran to the end and reported exit code c.
Reported(kind, c) == lastStatus[kind] = OkStatus(Exited(c))
\* A child ran to the end and reported some exit code other than 0.
ReportedFailure(kind) ==
    /\ lastStatus[kind].tag = "ok"
    /\ lastStatus[kind].status.hasCode
    /\ lastStatus[kind].status.code # 0

\* The exit code section 6 of the specification gives a run that went through
\* the build-and-run fallback, read off the recorded outcomes.
FallbackExitCode ==
    LET c == lastStatus["configure"]
        b == lastStatus["build"]
    IN  IF c.tag = "err" THEN 1
        ELSE IF c.tag = "ok" /\ c.status # Exited(0)
            THEN (IF c.status.hasCode THEN c.status.code ELSE 1)
        ELSE IF b.tag = "err" THEN 1
        ELSE IF b.status.hasCode THEN b.status.code ELSE 1

\* The search list of section 4.1: override, working directory and its
\* ancestors from nearest to furthest, manifest fallback.
SearchList ==
    (IF override.set THEN <<override.path>> ELSE <<>>)
    \o (IF cwd.ok
           THEN [i \in 1..(Len(cwd.dir) + 1) |->
                    AbsPath(SubSeq(cwd.dir, 1, Len(cwd.dir) + 1 - i))]
           ELSE <<>>)
    \o <<ManifestFallback(manifestOk)>>
\* The positions of a search list whose path satisfies root validity.
ValidPositions(list) == {i \in DOMAIN list : Resolve(list[i], cwd) \in validRoots}
NoValidCandidate == ValidPositions(SearchList) = {}

\* Prefixes of the working directory that are valid roots.
ValidAncestorLens ==
    IF cwd.ok THEN {n \in 0..Len(cwd.dir) : SubSeq(cwd.dir, 1, n) \in validRoots}
    ELSE {}

(***************************************************************************)
(* C1                                                                      *)
(***************************************************************************)
\* C1: whenever a root is found, the first-priority executable is a regular
\* file and it ran to the end with an exit code, zero or not, the launcher
\* exits with that code and that executable is the only child invoked: no
\* cmake step runs.
C1_PrebuiltCodePropagated ==
    (/\ Done
     /\ root.found
     /\ exeIsFile[1]
     /\ lastStatus["prebuilt"].tag = "ok"
     /\ lastStatus["prebuilt"].status.hasCode)
    => /\ invoked = <<Child("prebuilt", 1)>>
       /\ exitCode = lastStatus["prebuilt"].status.code

(***************************************************************************)
(* C2                                                                      *)
(***************************************************************************)
\* C2: when run_cmake_target is entered and the build directory does not
\* exist, configure is invoked before any build; when configure reports a
\* non-zero exit code, build is never invoked and the launcher exits with the
\* code configure reported.
C2_ConfigureFailureFinal ==
    ~buildExists
    => /\ \A i \in DOMAIN invoked :
            invoked[i].kind = "build"
            => /\ \E j \in 1..(i - 1) : invoked[j].kind = "configure"
               /\ Reported("configure", 0)
       /\ (pc \in {"wait_configure", "build", "wait_build"} \/ (Done /\ CmakeInvoked))
            => InvokedCount("configure") = 1
       /\ ReportedFailure("configure")
            => /\ InvokedCount("build") = 0
               /\ Done
               /\ exitCode = lastStatus["configure"].status.code

C2_Witness ==
    /\ Done
    /\ ~buildExists
    /\ ReportedFailure("configure")
    /\ InvokedCount("build") = 0
    /\ exitCode = lastStatus["configure"].status.code
    /\ exitCode > 1

(***************************************************************************)
(* C3                                                                      *)
(***************************************************************************)
\* C3: in a run with a root, no prebuilt executable at any of the three
\* locations and an existing build directory, configure is never invoked, the
\* build step is invoked exactly once, and the launcher exits with the code
\* the build reported.
C3_BuildOnly ==
    (root.found /\ exeIsFile = NoExecutable /\ buildExists)
    => /\ InvokedCount("configure") = 0
       /\ InvokedCount("prebuilt") = 0
       /\ Done => /\ invoked = <<Child("build", 0)>>
                  /\ (lastStatus["build"].tag = "ok"
                        /\ lastStatus["build"].status.hasCode)
                     => exitCode = lastStatus["build"].status.code

C3_Witness ==
    /\ Done
    /\ root.found
    /\ exeIsFile = NoExecutable
    /\ buildExists
    /\ invoked = <<Child("build", 0)>>
    /\ ReportedFailure("build")
    /\ exitCode = lastStatus["build"].status.code

(***************************************************************************)
(* C4                                                                      *)
(***************************************************************************)
\* C4: discover_root returns the first path of the search list that satisfies
\* root validity (None when there is none): a valid override is returned before
\* any valid ancestor, and with no override the nearest valid ancestor of the
\* working directory is returned before a further one and before the fallback.
C4_FirstValidCandidate ==
    Discovered
    => LET list == SearchList
           valid == ValidPositions(list)
       IN  /\ IF valid = {} THEN root = NoRoot
              ELSE \E i \in valid :
                      /\ \A j \in valid : i <= j
                      /\ root = SomeRoot(list[i])
           /\ (override.set /\ Resolve(override.path, cwd) \in validRoots)
                => root = SomeRoot(override.path)
           /\ (~override.set /\ ValidAncestorLens # {})
                => \E n \in ValidAncestorLens :
                      /\ \A m \in ValidAncestorLens : m <= n
                      /\ root = SomeRoot(AbsPath(SubSeq(cwd.dir, 1, n)))

C4_Witness ==
    /\ Discovered
    /\ override.set
    /\ cwd.ok
    /\ cwd.dir \in validRoots
    /\ Resolve(override.path, cwd) \in validRoots
    /\ Resolve(override.path, cwd) # cwd.dir
    /\ root = SomeRoot(override.path)

(***************************************************************************)
(* C5                                                                      *)
(***************************************************************************)
\* C5: when no candidate of the search list satisfies root validity,
\* discover_root returns None and the launcher exits with code 1 after writing
\* one diagnostic to standard error, without starting any child.
C5_NoRootExitsOne ==
    (Discovered /\ NoValidCandidate)
    => /\ root = NoRoot
       /\ Done
       /\ exitCode = 1
       /\ stderr = <<"root_not_found">>
       /\ invoked = <<>>

C5_Witness ==
    /\ Done
    /\ NoValidCandidate
    /\ validRoots # {}
    /\ root = NoRoot
    /\ exitCode = 1
    /\ stderr = <<"root_not_found">>

(***************************************************************************)
(* C6                                                                      *)
(***************************************************************************)
\* The calls of is_project_root that tested directory d.
EvalsOfDir(d) == {i \in DOMAIN evals : Resolve(evals[i], cwd) = d}
\* The calls of is_project_root with the path p.
EvalsOfPath(p) == {i \in DOMAIN evals : evals[i] = p}
IsAncestorOfCwd(d) ==
    cwd.ok /\ Len(d) <= Len(cwd.dir) /\ SubSeq(cwd.dir, 1, Len(d)) = d

\* C6 as stated: whenever the override resolves to a directory of the
\* ancestor chain of the working directory, however the override is written,
\* is_project_root is evaluated at most once for that directory.
C6_OncePerDirectory ==
    \A d \in Dirs :
        (override.set /\ Resolve(override.path, cwd) = d /\ IsAncestorOfCwd(d))
        => Cardinality(EvalsOfDir(d)) <= 1

\* C6 amended: is_project_root is evaluated at most once for each candidate
\* path; when the override is the same path as a directory of the ancestor
\* chain (the same absolute path, component for component), that directory is
\* tested at most once.
C6_OncePerPath ==
    /\ \A i, j \in DOMAIN evals : evals[i] = evals[j] => i = j
    /\ \A d \in Dirs :
        (override.set /\ override.path = AbsPath(d) /\ IsAncestorOfCwd(d))
        => /\ Cardinality(EvalsOfPath(override.path)) <= 1
           /\ Cardinality(EvalsOfDir(d)) <= 1

C6_Witness ==
    /\ Discovered
    /\ override.set
    /\ cwd.ok
    /\ override.path = AbsPath(cwd.dir)
    /\ idx > 2
    /\ Cardinality(EvalsOfPath(override.path)) = 1
    /\ Cardinality(EvalsOfDir(cwd.dir)) = 1

(***************************************************************************)
(* C7                                                                      *)
(***************************************************************************)
\* C7: at most one prebuilt executable is ever invoked, and it is the first of
\* the three, in their fixed order, that is a regular file; no later one is
\* invoked when that invocation fails to spawn or exits non-zero.
C7_OnlyFirstExecutable ==
    /\ InvokedCount("prebuilt") <= 1
    /\ \A i \in DOMAIN invoked :
          invoked[i].kind = "prebuilt"
          => /\ invoked[i].exe \in 1..NExe
             /\ exeIsFile[invoked[i].exe]
             /\ \A j \in 1..(invoked[i].exe - 1) : ~exeIsFile[j]

C7_Witness ==
    /\ Done
    /\ ~exeIsFile[1]
    /\ exeIsFile[2]
    /\ exeIsFile[3]
    /\ ReportedFailure("prebuilt")
    /\ InvokedCount("prebuilt") = 1
    /\ invoked[1] = Child("prebuilt", 2)

(***************************************************************************)
(* C8                                                                      *)
(***************************************************************************)
\* C8: when spawning or waiting on the prebuilt executable fails with an io
\* error, main reports it on standard error and does not exit before
\* run_cmake_target has run; the outcome of run_cmake_target is the exit code.
C8_LaunchErrorFallsThrough ==
    lastStatus["prebuilt"] = IoErr
    => /\ stderr # <<>>
       /\ stderr[1] = "launch_failed"
       /\ pc \in {"cmake", "wait_configure", "build", "wait_build", "exited"}
       /\ Done => /\ CmakeInvoked
                  /\ Len(invoked) >= 2
                  /\ invoked[2].kind \in {"configure", "build"}
                  /\ exitCode = FallbackExitCode

C8_Witness ==
    /\ Done
    /\ lastStatus["prebuilt"] = IoErr
    /\ stderr = <<"launch_failed">>
    /\ Reported("configure", 0)
    /\ Reported("build", 2)
    /\ exitCode = 2

(***************************************************************************)
(* C9                                                                      *)
(***************************************************************************)
KindRank(kind) == CASE kind = "prebuilt" -> 1 [] kind = "configure" -> 2 [] kind = "build" -> 3

\* C9: at most one child process is running in every state, it is the one
\* invoked last, and children are invoked in the order prebuilt, configure,
\* build.
C9_OneChildAtATime ==
    /\ Cardinality(running) <= 1
    /\ \A c \in running : invoked # <<>> /\ c = invoked[Len(invoked)]
    /\ \A i, j \in DOMAIN invoked :
          i < j => KindRank(invoked[i].kind) < KindRank(invoked[j].kind)

C9_Witness ==
    /\ pc = "wait_build"
    /\ Len(invoked) = 3
    /\ invoked[1].kind = "prebuilt"
    /\ invoked[2].kind = "configure"
    /\ running = {Child("build", 0)}

====
